---- MODULE Spec2Model ----
(***************************************************************************)
(* Two numeric engines of the lecture notebooks:                           *)
(*   - matrix_factorization (lect19, "Matrix Factorization.ipynb"), the    *)
(*     regularized SGD loop, with numpy's reference semantics for the      *)
(*     arrays it is handed (M.T is a view, U[i,k] = ... writes in place);  *)
(*   - the collapsed Gibbs sampler for LDA described in the lect23         *)
(*     notebook (section "Learning"), with the count tables of the design. *)
(*                                                                         *)
(* Indices are 1-based here and 0-based in the source.                     *)
(* Numbers: the arrays hold float64.  The model draws integer-valued       *)
(* inputs, a learning rate counted in halves (learning_rate_x2 / 2) and an *)
(* even beta, so that every product and sum of the source is an exact      *)
(* integer; a magnitude above MaxAbs is the model's float overflow and     *)
(* becomes NaN, which every later operation propagates and every           *)
(* comparison answers with False, as IEEE arithmetic does.                 *)
(***************************************************************************)
EXTENDS Integers, Sequences, FiniteSets, TLC

\* ------------------------------------------------------------- bounds
MaxIter == 2        \* max_iter ranges over 0..MaxIter
MaxObs == 2         \* R has at most MaxObs observed (non-zero) cells
MaxAbs == 100       \* largest finite magnitude
MaxWords == 2       \* word occurrences in the corpus
MaxTopics == 2      \* K ranges over 0..MaxTopics
MaxSweeps == 2      \* sampling sweeps P

Rows == {1, 2}      \* row indices of R and U (I = 2)
Cols == {1, 2}      \* column indices of R, row indices of M (J = 2)
Ranks == {1, 2}     \* shape[1] of U and of M
Docs == {1, 2}      \* document indices
Vocab == {1, 2}     \* token ids; V = 2
V == Cardinality(Vocab)
InitVals == {0, 1}  \* the entries U and M start with
RatingVals == {0, 1} \* the entries of R; 0 is the unobserved sentinel
NI == Cardinality(Rows)
NJ == Cardinality(Cols)

VARIABLES
    \* --- matrix_factorization
    pc,                 \* position in matrix_factorization
    heap,               \* array buffers: buffer name -> rows -> entries
    R,                  \* the ratings matrix
    callerU, callerM,   \* the caller's names U and M: references into heap
    U, M,               \* the function's names U and M: references into heap
    ret,                \* the returned pair (nU, nM)
    K, max_iter, learning_rate_x2, beta, tol,
    x, y,               \* np.nonzero(R)
    order, it, step, e2,
    \* --- history of the run (not read by the program)
    heap0,              \* the buffers as they were at the call
    prev,               \* the buffers before the last update step
    cur,                \* the cell (i, j) and residual of the last update step
    visited,            \* cells updated so far in the current epoch, in order
    scored,             \* cells read by the last objective computation
    e2log,              \* the objective of every completed epoch
    changed,            \* some update wrote a value different from the old one
    ticks               \* statements executed so far (one per action)

mfvars == <<pc, heap, R, callerU, callerM, U, M, ret, K, max_iter,
            learning_rate_x2, beta, tol, x, y, order, it, step, e2,
            heap0, prev, cur, visited, scored, e2log, changed, ticks>>

VARIABLES
    \* --- LDA collapsed Gibbs sampler
    lpc,                \* position in the sampler
    docs,               \* the corpus: documents, each a sequence of token ids
    topics, alpha, eta, \* K, and the two smoothing constants
    z,                  \* Assignment State: z[d][i] is a topic, 0 while removed
    doc_topic_count,    \* [d][t]
    topic_word_count,   \* [t][w]
    topic_total_count,  \* [t]
    occ,                \* the next word occurrence, as an index into Occurrences
    sweep,              \* sweeps completed
    weights,            \* the unnormalized weights of the occurrence being resampled
    taken,              \* the topic step 1 took the occurrence out of
    moved               \* some resampling chose a topic other than the old one

ldavars == <<lpc, docs, topics, alpha, eta, z, doc_topic_count, topic_word_count,
             topic_total_count, occ, sweep, weights, taken, moved>>

vars == <<mfvars, ldavars>>

\* ------------------------------------------------------------- numbers
NaN == MaxAbs + 1

Clip(v) == IF v > MaxAbs \/ v < -MaxAbs THEN NaN ELSE v
Add(a, b) == IF a = NaN \/ b = NaN THEN NaN ELSE Clip(a + b)
Sub(a, b) == IF a = NaN \/ b = NaN THEN NaN ELSE Clip(a - b)
Mul(a, b) == IF a = NaN \/ b = NaN THEN NaN ELSE Clip(a * b)
Less(a, b) == a # NaN /\ b # NaN /\ a < b
\* learning_rate * v, v even (beta is even)
TimesRate(v) == IF v = NaN THEN NaN ELSE Clip((learning_rate_x2 * v) \div 2)
\* beta/2.0 * v
TimesHalfBeta(v) == Mul(beta \div 2, v)

\* ------------------------------------------------------------- arrays
\* A reference is a buffer and whether it is read transposed (a numpy view).
Ref(b) == [buf |-> b, T |-> FALSE]
NoRef == [buf |-> "none", T |-> FALSE]

Get(h, r, a, b) == IF r.T THEN h[r.buf][b][a] ELSE h[r.buf][a][b]
Put(h, r, a, b, v) ==
    IF r.T THEN [h EXCEPT ![r.buf][b][a] = v] ELSE [h EXCEPT ![r.buf][a][b] = v]

\* shape[1] of the array a reference names
NCols(h, r) == IF r.T THEN Len(h[r.buf]) ELSE Len(h[r.buf][1])
NRows(h, r) == IF r.T THEN Len(h[r.buf][1]) ELSE Len(h[r.buf])

\* the contents seen through a reference, as rows
Contents(h, r) ==
    [a \in 1..NRows(h, r) |-> [b \in 1..NCols(h, r) |-> Get(h, r, a, b)]]

\* M.T: a view of the same buffer
TransposeCopy(h, r) ==
    [heap |-> [b \in DOMAIN h \cup {"copy"} |->
                  IF b = "copy" THEN Contents(h, [r EXCEPT !.T = ~r.T]) ELSE h[b]],
     ref |-> Ref("copy")]
Transpose(h, r) == [heap |-> h, ref |-> [r EXCEPT !.T = ~r.T]]

\* ------------------------------------------------------------- np.nonzero
\* the cells of R in row-major order, as np.nonzero lists them
CellAt(n) == <<((n - 1) \div NJ) + 1, ((n - 1) % NJ) + 1>>
AllCells == [n \in 1..(NI * NJ) |-> CellAt(n)]
IsObserved(r, c) == r[c[1]][c[2]] # 0

NonzeroAll(r) == AllCells
Nonzero(r) == SelectSeq(AllCells, LAMBDA c : IsObserved(r, c))

\* np.random.permutation(n): every ordering of 1..n
WithReplacement(n) == [1..n -> 1..n]
Permutation(n) == {p \in [1..n -> 1..n] : \A a, b \in 1..n : p[a] = p[b] => a = b}

\* ------------------------------------------------------------- one update
Square(v) == Mul(v, v)

\* np.dot(U[i,:], M[:,j]), over the whole rows
RECURSIVE DotFrom(_, _, _, _)
DotFrom(h, i, j, k) ==
    IF k = 0 THEN 0
    ELSE Add(DotFrom(h, i, j, k - 1), Mul(Get(h, U, i, k), Get(h, M, k, j)))
Dot(h, i, j) == DotFrom(h, i, j, NCols(h, U))

\* eij = R[i,j] - np.dot(U[i,:], M[:,j])
Residual(h, i, j) == Sub(R[i][j], Dot(h, i, j))

\* U[i,k] + learning_rate*(2*eij*M[k,j] - beta*U[i,k])
NewU(h, i, j, k, eij) ==
    Add(Get(h, U, i, k),
        TimesRate(Sub(Mul(Mul(2, eij), Get(h, M, k, j)), Mul(beta, Get(h, U, i, k)))))
\* M[k,j] + learning_rate*(2*eij*U[i,k] - beta*M[k,j])
NewM(h, i, j, k, eij) ==
    Add(Get(h, M, k, j),
        TimesRate(Sub(Mul(Mul(2, eij), Get(h, U, i, k)), Mul(beta, Get(h, M, k, j)))))

\* U[i,k] = v and M[k,j] = v: one entry of the buffer behind the reference
WriteWholeColumnU(h, i, k, v) ==
    [h EXCEPT ![U.buf] = [a \in DOMAIN h[U.buf] |-> [h[U.buf][a] EXCEPT ![k] = v]]]
WriteU(h, i, k, v) == Put(h, U, i, k, v)
WriteM(h, k, j, v) == Put(h, M, k, j, v)

\* for k in range(K): the two assignments, in the source's order.  U[i,k] with
\* k beyond the array's columns raises IndexError, with the writes of the
\* earlier k already made.
RECURSIVE KLoop(_, _, _, _, _)
KLoop(h, i, j, eij, k) ==
    IF k > K THEN [heap |-> h, raised |-> FALSE]
    ELSE IF k > NCols(h, U) THEN [heap |-> h, raised |-> TRUE]
    ELSE LET h1 == WriteU(h, i, k, NewU(h, i, j, k, eij))
             h2 == WriteM(h1, k, j, NewM(h1, i, j, k, eij))
         IN  KLoop(h2, i, j, eij, k + 1)

\* both assignments computed from the values before the iteration
RECURSIVE KLoopSimultaneous(_, _, _, _, _)
KLoopSimultaneous(h, i, j, eij, k) ==
    IF k > K THEN [heap |-> h, raised |-> FALSE]
    ELSE IF k > NCols(h, U) THEN [heap |-> h, raised |-> TRUE]
    ELSE LET h1 == WriteU(h, i, k, NewU(h, i, j, k, eij))
             h2 == WriteM(h1, k, j, NewM(h, i, j, k, eij))
         IN  KLoopSimultaneous(h2, i, j, eij, k + 1)

UpdateCellSimultaneous(h, i, j) == KLoopSimultaneous(h, i, j, Residual(h, i, j), 1)
\* the body of "for step in range(len(order))" for the cell (i, j)
UpdateCell(h, i, j) == KLoop(h, i, j, Residual(h, i, j), 1)

\* ------------------------------------------------------------- the objective
\* for k in range(K): e2 += beta/2.0 * (pow(U[i,k],2) + pow(M[k,j],2))
RECURSIVE Penalty(_, _, _, _, _)
Penalty(h, i, j, acc, k) ==
    IF k = 0 THEN acc
    ELSE Add(Penalty(h, i, j, acc, k - 1),
             TimesHalfBeta(Add(Square(Get(h, U, i, k)), Square(Get(h, M, k, j)))))

\* e2 after the first s cells of order; P[i,j] is np.dot(U,M)[i,j]
RECURSIVE ObjectiveFrom(_, _)
ObjectiveFrom(h, s) ==
    IF s = 0 THEN 0
    ELSE LET i == x[order[s]]
             j == y[order[s]]
         IN  Penalty(h, i, j,
                     Add(ObjectiveFrom(h, s - 1), Square(Sub(R[i][j], Dot(h, i, j)))),
                     K)

RECURSIVE SumSquares(_, _)
SumSquares(h, s) ==
    IF s = 0 THEN 0
    ELSE Add(SumSquares(h, s - 1),
             Square(Sub(R[x[order[s]]][y[order[s]]], Dot(h, x[order[s]], y[order[s]]))))
RECURSIVE RowPenalty(_, _, _)
RowPenalty(h, r, n) ==
    IF n = 0 THEN 0
    ELSE LET rest == RowPenalty(h, r, n - 1)
             RECURSIVE Cols2(_)
             Cols2(k) == IF k = 0 THEN 0
                         ELSE Add(Cols2(k - 1), TimesHalfBeta(Square(h[r.buf][n][k])))
         IN  Add(rest, Cols2(K))
\* the penalty counted once per factor row
ObjectiveOncePerRow(h) ==
    Add(SumSquares(h, Len(order)),
        Add(RowPenalty(h, callerU, NI), RowPenalty(h, callerM, NJ)))
Objective(h) == ObjectiveFrom(h, Len(order))

\* if e2 < tol: break
Breaks(v) == Less(v, tol)
\* for it in range(max_iter)
LoopContinuesOffByOne == it <= max_iter
LoopContinues == it < max_iter

\* ------------------------------------------------------------- the call
Tols == {0, 2}
Betas == {0, 2}

\* R: at most MaxObs non-zero cells, the others 0
Ratings ==
    {r \in [Rows -> [Cols -> RatingVals]] :
        Cardinality({c \in Rows \X Cols : r[c[1]][c[2]] # 0}) <= MaxObs}

\* an n x ka array whose column k starts at seed[k]
Filled(n, ka, seed) == [a \in 1..n |-> [k \in 1..ka |-> seed[k]]]

\* the demo cell: U = rand(I,K), M = rand(J,K); nU, nM = matrix_factorization(R,U,M,K)
CallWith(ka, k, b, rate) ==
    /\ R \in Ratings
    /\ \E su \in InitVals, sm \in [1..ka -> InitVals] :
           heap = [b1 \in {"U", "M"} |->
                      IF b1 = "U" THEN Filled(NI, ka, [c \in 1..ka |-> su])
                                  ELSE Filled(NJ, ka, sm)]
    /\ callerU = Ref("U") /\ callerM = Ref("M")
    /\ U = callerU /\ M = callerM
    /\ ret = <<NoRef, NoRef>>
    /\ K = k /\ beta = b /\ learning_rate_x2 = rate
    /\ max_iter \in 0..MaxIter
    /\ tol \in Tols
    /\ x = <<>> /\ y = <<>> /\ order = <<>>
    /\ it = 0 /\ step = 0 /\ e2 = 0
    /\ pc = "call"
    /\ heap0 = heap /\ prev = heap /\ cur = [i |-> 0, j |-> 0, eij |-> 0]
    /\ visited = <<>> /\ scored = <<>> /\ e2log = <<>> /\ changed = FALSE
    /\ ticks = 0

\* a call the design accepts: K is the rank of U and M, no negative parameter
ConfigValid ==
    /\ K >= 1 /\ K = Len(heap0["U"][1]) /\ K = Len(heap0["M"][1])
    /\ beta >= 0 /\ learning_rate_x2 >= 0 /\ tol >= 0 /\ max_iter >= 0

\* the sampler is not running
LdaIdle ==
    /\ lpc = "off" /\ docs = <<>> /\ topics = 0 /\ alpha = 0 /\ eta = 0
    /\ z = <<>> /\ doc_topic_count = <<>> /\ topic_word_count = <<>>
    /\ topic_total_count = <<>> /\ occ = 0 /\ sweep = 0 /\ weights = <<>>
    /\ taken = 0 /\ moved = FALSE

Init == LdaIdle /\ \E ka \in Ranks, b \in Betas : CallWith(ka, ka, b, 1)

\* any call: K need not be the arrays' rank, beta and the rate may be negative
InitAny ==
    LdaIdle /\ \E ka \in Ranks, k \in 0..3, b \in Betas \cup {-2} : CallWith(ka, k, b, 1)

\* M = M.T ; x,y = np.nonzero(R)
Enter ==
    /\ pc = "call"
    /\ LET t == Transpose(heap, M)
           nz == Nonzero(R)
       IN  /\ heap' = t.heap
           /\ M' = t.ref
           /\ x' = [n \in 1..Len(nz) |-> nz[n][1]]
           /\ y' = [n \in 1..Len(nz) |-> nz[n][2]]
    /\ pc' = "for"
    /\ UNCHANGED ldavars
    /\ ticks' = ticks + 1
    /\ UNCHANGED <<R, callerU, callerM, U, ret, K, max_iter, learning_rate_x2, beta,
                   tol, order, it, step, e2, heap0, prev, cur, visited, scored,
                   e2log, changed>>

\* for it in range(max_iter): order = np.random.permutation(len(x))
\* (it counts the epochs begun: the source's it plus one)
EpochBegin ==
    /\ pc = "for"
    /\ LoopContinues
    /\ order' \in Permutation(Len(x))
    /\ it' = it + 1
    /\ step' = 0
    /\ visited' = <<>>
    /\ pc' = "steps"
    /\ UNCHANGED ldavars
    /\ ticks' = ticks + 1
    /\ UNCHANGED <<heap, R, callerU, callerM, U, M, ret, K, max_iter,
                   learning_rate_x2, beta, tol, x, y, e2, heap0, prev, cur, scored,
                   e2log, changed>>

\* range(max_iter) is exhausted
LoopExhausted ==
    /\ pc = "for"
    /\ ~LoopContinues
    /\ pc' = "return"
    /\ UNCHANGED ldavars
    /\ ticks' = ticks + 1
    /\ UNCHANGED <<heap, R, callerU, callerM, U, M, ret, K, max_iter,
                   learning_rate_x2, beta, tol, x, y, order, it, step, e2, heap0,
                   prev, cur, visited, scored, e2log, changed>>

\* one pass of "for step in range(len(order))": i, j, eij and the k loop
SgdStep ==
    /\ pc = "steps"
    /\ step < Len(order)
    /\ LET i == x[order[step + 1]]
           j == y[order[step + 1]]
           r == UpdateCell(heap, i, j)
       IN  /\ heap' = r.heap
           /\ pc' = IF r.raised THEN "raised" ELSE "steps"
           /\ prev' = heap
           /\ cur' = [i |-> i, j |-> j, eij |-> Residual(heap, i, j)]
           /\ visited' = Append(visited, <<i, j>>)
           /\ changed' = (changed \/ r.heap # heap)
    /\ step' = step + 1
    /\ UNCHANGED ldavars
    /\ ticks' = ticks + 1
    /\ UNCHANGED <<R, callerU, callerM, U, M, ret, K, max_iter, learning_rate_x2,
                   beta, tol, x, y, order, it, e2, heap0, scored, e2log>>

\* P = np.dot(U,M); e2 = ...; if e2 < tol: break
EpochEnd ==
    /\ pc = "steps"
    /\ step = Len(order)
    /\ e2' = Objective(heap)
    /\ scored' = [s \in 1..Len(order) |-> <<x[order[s]], y[order[s]]>>]
    /\ e2log' = Append(e2log, e2')
    /\ pc' = IF Breaks(e2') THEN "return" ELSE "for"
    /\ UNCHANGED ldavars
    /\ ticks' = ticks + 1
    /\ UNCHANGED <<heap, R, callerU, callerM, U, M, ret, K, max_iter,
                   learning_rate_x2, beta, tol, x, y, order, it, step, heap0, prev,
                   cur, visited, changed>>

\* return U, M.T
Return ==
    /\ pc = "return"
    /\ LET t == Transpose(heap, M)
       IN  /\ heap' = t.heap
           /\ ret' = <<U, t.ref>>
    /\ pc' = "done"
    /\ UNCHANGED ldavars
    /\ ticks' = ticks + 1
    /\ UNCHANGED <<R, callerU, callerM, U, M, K, max_iter, learning_rate_x2, beta,
                   tol, x, y, order, it, step, e2, heap0, prev, cur, visited, scored,
                   e2log, changed>>

Next == Enter \/ EpochBegin \/ LoopExhausted \/ SgdStep \/ EpochEnd \/ Return

Spec == Init /\ [][Next]_vars
SpecAny == InitAny /\ [][Next]_vars

\* ------------------------------------------------------------- what the claims read
\* the cells of R that hold a rating
Observed == {c \in Rows \X Cols : R[c[1]][c[2]] # 0}
SeqSet(q) == {q[n] : n \in 1..Len(q)}
Distinct(q) == \A a, b \in 1..Len(q) : q[a] = q[b] => a = b
\* the function's U (I x K rows) and the transpose of its M (J x K rows)
LocalU(h) == Contents(h, U)
LocalMT(h) == Contents(h, [M EXCEPT !.T = ~M.T])
Entered == pc # "call"
EpochDone == Len(e2log) >= 1 /\ pc \in {"for", "return", "done"}
Finite(v) == v # NaN

\* C1: the index x,y lists exactly the non-zero cells of R; every epoch's
\* order is a permutation of it; the cells updated in an epoch are those the
\* order names, each once, all of them by the end of the epoch; no cell
\* holding 0 is updated or read by the objective.
C1_ObservedCellsOnce ==
    Entered =>
        /\ Len(x) = Len(y)
        /\ Len(x) = Cardinality(Observed)
        /\ {<<x[n], y[n]>> : n \in 1..Len(x)} = Observed
        /\ it >= 1 =>
              /\ Len(order) = Len(x)
              /\ {order[n] : n \in 1..Len(order)} = 1..Len(x)
              /\ Len(visited) = step
              /\ \A n \in 1..Len(visited) : visited[n] = <<x[order[n]], y[order[n]]>>
              /\ Distinct(visited)
              /\ SeqSet(visited) \subseteq Observed
              /\ (pc # "steps" /\ pc # "raised") => SeqSet(visited) = Observed
        /\ SeqSet(scored) \subseteq Observed
        /\ EpochDone => (SeqSet(scored) = Observed /\ Distinct(scored))

C1_Witness ==
    /\ pc = "done" /\ it = 2
    /\ order = <<2, 1>>
    /\ Len(visited) = 2
    /\ Cardinality(Observed) < NI * NJ
    /\ scored = visited

\* C2: the epochs run are at most max_iter; the function leaves the loop
\* right after the first epoch whose objective is below tol, and otherwise
\* after exactly max_iter epochs; it is never stuck before its return and
\* runs a bounded number of statements.
C2_LoopControl ==
    /\ it <= max_iter
    /\ Len(e2log) <= it
    /\ \A n \in 1..(Len(e2log) - 1) : ~(Finite(e2log[n]) /\ e2log[n] < tol)
    /\ pc \in {"for", "steps"} =>
          /\ \A n \in 1..Len(e2log) : ~(Finite(e2log[n]) /\ e2log[n] < tol)
          /\ Len(e2log) = IF pc = "for" THEN it ELSE it - 1
    /\ pc \in {"return", "done"} =>
          /\ Len(e2log) = it
          /\ \/ it >= 1 /\ Finite(e2log[it]) /\ e2log[it] < tol
             \/ it = max_iter
    \* it terminates: some statement can always run until the return, and
    \* the statements run are bounded by the epochs and the cells
    /\ \/ pc = "done"
       \/ pc = "call"
       \/ pc = "for" /\ (it < max_iter => Permutation(Len(x)) # {})
       \/ pc = "steps" /\ step <= Len(order)
       \/ pc = "return"
    /\ ticks <= 3 + max_iter * (Cardinality(Observed) + 2)

C2_Witness ==
    /\ pc = "done" /\ it = 2
    /\ e2log[1] >= tol /\ e2log[2] < tol
    /\ changed

\* C3 as stated: an all-zero R makes the function stop after its first
\* epoch, with U and M as they were.
C3_AllZeroStopsAfterFirstEpoch ==
    (Observed = {} /\ pc = "done") =>
        /\ it = 1
        /\ LocalU(heap) = LocalU(heap0) /\ Contents(heap, callerM) = Contents(heap0, callerM)

\* C3 amended: for an all-zero R no entry of U or M is ever written, and
\* when tol > 0 and max_iter >= 1 the function stops after its first epoch
\* (with tol = 0 it runs all max_iter epochs, with max_iter = 0 none).
C3_AllZeroUnchanged ==
    Observed = {} =>
        /\ Contents(heap, callerU) = Contents(heap0, callerU)
        /\ Contents(heap, callerM) = Contents(heap0, callerM)
        /\ ~changed
        /\ (pc = "done" /\ tol > 0 /\ max_iter >= 1) => (it = 1 /\ e2log = <<0>>)
        /\ (pc = "done" /\ (tol <= 0 \/ max_iter = 0)) => it = max_iter

C3_Witness ==
    /\ Observed = {} /\ pc = "done" /\ it = 1 /\ max_iter = 2
    /\ \E a \in Rows : heap["U"][a][1] # 0
    /\ \E b \in Cols : heap["M"][b][1] # 0

\* C4 as stated: a call with an invalid configuration is rejected before any
\* computation, so when the error is reported no entry of U or M has been
\* modified.
C4_RejectedBeforeComputation ==
    (~ConfigValid /\ pc = "raised") =>
        /\ Contents(heap, callerU) = Contents(heap0, callerU)
        /\ Contents(heap, callerM) = Contents(heap0, callerM)

\* C7: after the update for (i,j), with e the residual R[i,j] - U[i,:].M[j,:]
\* of the arrays as they were before it, every k < K has
\*   U[i,k] = U0 + rate*(2*e*M0 - beta*U0)  and
\*   M[j,k] = M0 + rate*(2*e*U[i,k] - beta*M0),  U[i,k] being the new value.
C7_SequentialCoupling ==
    (cur.i # 0 /\ pc # "raised") =>
        LET i == cur.i
            j == cur.j
            u0 == LocalU(prev)[i]
            m0 == LocalMT(prev)[j]
            u1 == LocalU(heap)[i]
            m1 == LocalMT(heap)[j]
            dot2 == IF Len(u0) = 1 THEN Mul(u0[1], m0[1])
                    ELSE Add(Mul(u0[1], m0[1]), Mul(u0[2], m0[2]))
            e == Sub(R[i][j], dot2)
        IN  /\ cur.eij = e
            /\ \A k \in 1..K :
                  /\ u1[k] = Add(u0[k], TimesRate(Sub(Mul(Mul(2, e), m0[k]), Mul(beta, u0[k]))))
                  /\ m1[k] = Add(m0[k], TimesRate(Sub(Mul(Mul(2, e), u1[k]), Mul(beta, m0[k]))))

\* an update where the value U[i,k] had before differs from the new one and
\* the two readings give different M[j,k]
C7_Witness ==
    /\ cur.i # 0 /\ pc = "steps" /\ K = 2
    /\ LET u0 == LocalU(prev)[cur.i]
           m0 == LocalMT(prev)[cur.j]
           u1 == LocalU(heap)[cur.i]
           m1 == LocalMT(heap)[cur.j]
       IN  /\ \A k \in 1..K : Finite(u1[k]) /\ Finite(m1[k])
           /\ u1[2] # u0[2]
           /\ m1[2] # m0[2] + (learning_rate_x2 * (2 * cur.eij * u0[2] - beta * m0[2])) \div 2

\* the sum of f over a finite set
RECURSIVE SumOver(_, _)
SumOver(S, f) ==
    IF S = {} THEN 0
    ELSE LET c == CHOOSE c \in S : TRUE IN Add(f[c], SumOver(S \ {c}, f))

\* C8: the objective compared with tol is computed from U and M as they are
\* after the epoch's last update and is
\*   sum over observed (i,j) of (R[i,j] - P[i,j])^2
\*   + sum over observed (i,j) and k < K of beta/2 * (U[i,k]^2 + M[j,k]^2).
C8_ObjectivePerObservedCell ==
    EpochDone =>
        LET u == LocalU(heap)
            m == LocalMT(heap)
            P(c) == IF Len(u[c[1]]) = 1 THEN Mul(u[c[1]][1], m[c[2]][1])
                    ELSE Add(Mul(u[c[1]][1], m[c[2]][1]), Mul(u[c[1]][2], m[c[2]][2]))
            Err(c) == Square(Sub(R[c[1]][c[2]], P(c)))
            Reg(c) == SumOver(1..K, [k \in 1..K |->
                          TimesHalfBeta(Add(Square(u[c[1]][k]), Square(m[c[2]][k])))])
        IN  /\ e2 = SumOver(Observed, [c \in Observed |-> Add(Err(c), Reg(c))])
            /\ e2 = e2log[Len(e2log)]
            /\ pc = "for" => ~(Finite(e2) /\ e2 < tol)
            /\ (pc \in {"return", "done"} /\ it < max_iter) => (Finite(e2) /\ e2 < tol)

\* a row of U with two observed cells and a non-zero penalty
C8_Witness ==
    /\ EpochDone /\ beta = 2 /\ Finite(e2) /\ changed
    /\ \E a \in Rows :
          /\ \A b \in Cols : R[a][b] # 0
          /\ \E k \in 1..K : LocalU(heap)[a][k] # 0

\* C9: the update for (i,j) leaves every row of U but i and every row of M
\* but j as it was; a row of U or of M with no observed cell holds its
\* initial values at every point of the run, the return included.
C9_OnlyTheCellsRows ==
    Entered =>
        /\ cur.i # 0 =>
              /\ \A a \in Rows \ {cur.i} : LocalU(heap)[a] = LocalU(prev)[a]
              /\ \A b \in Cols \ {cur.j} : LocalMT(heap)[b] = LocalMT(prev)[b]
        /\ \A a \in Rows :
              (\A b \in Cols : R[a][b] = 0) => Contents(heap, callerU)[a] = heap0["U"][a]
        /\ \A b \in Cols :
              (\A a \in Rows : R[a][b] = 0) => Contents(heap, callerM)[b] = heap0["M"][b]

\* returned with one row of U never observed and the other row changed
C9_Witness ==
    /\ pc = "done"
    /\ \A b \in Cols : R[1][b] = 0
    /\ heap["U"][1] = heap0["U"][1] /\ heap["U"][1][1] # 0
    /\ heap["U"][2] # heap0["U"][2]
    /\ \E b \in Cols : heap["M"][b] # heap0["M"][b]

RECURSIVE OccurrencesFrom(_, _)
OccurrencesFrom(c, d) ==
    IF d > Len(c) THEN <<>>
    ELSE [i \in 1..Len(c[d]) |-> <<d, i>>] \o OccurrencesFrom(c, d + 1)
Occurrences == OccurrencesFrom(docs, 1)

\* the three count tables with one occurrence of token w in document d
\* taken out of topic t
DecrementForgetTotal(cnt, d, w, t) ==
    [dt |-> [cnt.dt EXCEPT ![d][t] = @ - 1],
     tw |-> [cnt.tw EXCEPT ![t][w] = @ - 1],
     tt |-> cnt.tt]
Decrement(cnt, d, w, t) ==
    [dt |-> [cnt.dt EXCEPT ![d][t] = @ - 1],
     tw |-> [cnt.tw EXCEPT ![t][w] = @ - 1],
     tt |-> [cnt.tt EXCEPT ![t] = @ - 1]]
\* ... and put under topic t
Increment(cnt, d, w, t) ==
    [dt |-> [cnt.dt EXCEPT ![d][t] = @ + 1],
     tw |-> [cnt.tw EXCEPT ![t][w] = @ + 1],
     tt |-> [cnt.tt EXCEPT ![t] = @ + 1]]
Counts == [dt |-> doc_topic_count, tw |-> topic_word_count, tt |-> topic_total_count]

\* (doc_topic_count[d,t] + alpha) * (topic_word_count[t,w] + eta)
\*    / (topic_total_count[t] + V*eta), as a fraction
WeightNoSmoothing(d, w, t) ==
    [num |-> doc_topic_count[d][t] * (topic_word_count[t][w] + eta),
     den |-> topic_total_count[t] + V * eta]
Weight(d, w, t) ==
    [num |-> (doc_topic_count[d][t] + alpha) * (topic_word_count[t][w] + eta),
     den |-> topic_total_count[t] + V * eta]

\* the sum of the first n weights, as a fraction
RECURSIVE Total(_, _)
Total(ws, n) ==
    IF n = 0 THEN [num |-> 0, den |-> 1]
    ELSE LET r == Total(ws, n - 1)
         IN  [num |-> r.num * ws[n].den + ws[n].num * r.den, den |-> r.den * ws[n].den]

\* K <= 0, V <= 0 or a negative smoothing constant is a configuration error
LdaConfigValid == topics >= 1 /\ V >= 1 /\ alpha >= 0 /\ eta >= 0

\* corpora of at most MaxWords occurrences
Corpora ==
    {c \in [Docs -> UNION {[1..n -> Vocab] : n \in 0..MaxWords}] :
        Len(c[1]) + Len(c[2]) <= MaxWords}

MfIdle ==
    /\ pc = "off" /\ heap = <<>> /\ R = <<>> /\ callerU = NoRef /\ callerM = NoRef
    /\ U = NoRef /\ M = NoRef /\ ret = <<NoRef, NoRef>>
    /\ K = 0 /\ max_iter = 0 /\ learning_rate_x2 = 0 /\ beta = 0 /\ tol = 0
    /\ x = <<>> /\ y = <<>> /\ order = <<>> /\ it = 0 /\ step = 0 /\ e2 = 0
    /\ heap0 = <<>> /\ prev = <<>> /\ cur = [i |-> 0, j |-> 0, eij |-> 0]
    /\ visited = <<>> /\ scored = <<>> /\ e2log = <<>> /\ changed = FALSE
    /\ ticks = 0

InitLDA ==
    /\ MfIdle
    /\ docs \in Corpora
    /\ topics \in 0..MaxTopics
    /\ alpha \in {0, 1}
    /\ eta \in {1}
    /\ lpc = "configure"
    /\ z = [d \in Docs |-> [i \in 1..Len(docs[d]) |-> 0]]
    /\ doc_topic_count = <<>> /\ topic_word_count = <<>> /\ topic_total_count = <<>>
    /\ occ = 1 /\ sweep = 0 /\ weights = <<>> /\ taken = 0 /\ moved = FALSE

\* a configuration error is rejected before initialization
LdaReject ==
    /\ lpc = "configure"
    /\ ~LdaConfigValid
    /\ lpc' = "rejected"
    /\ UNCHANGED <<docs, topics, alpha, eta, z, doc_topic_count, topic_word_count,
                   topic_total_count, occ, sweep, weights, taken, moved>>
    /\ UNCHANGED mfvars

\* the count tables start at zero
LdaAccept ==
    /\ lpc = "configure"
    /\ LdaConfigValid
    /\ doc_topic_count' = [d \in Docs |-> [t \in 1..topics |-> 0]]
    /\ topic_word_count' = [t \in 1..topics |-> [w \in Vocab |-> 0]]
    /\ topic_total_count' = [t \in 1..topics |-> 0]
    /\ lpc' = "init"
    /\ UNCHANGED <<docs, topics, alpha, eta, z, occ, sweep, weights, taken, moved>>
    /\ UNCHANGED mfvars

\* the step after occurrence number occ of a pass over the corpus
AfterOccurrence ==
    IF occ < Len(Occurrences) THEN [occ |-> occ + 1, sweep |-> sweep, lpc |-> "remove"]
    ELSE IF sweep + 1 < MaxSweeps THEN [occ |-> 1, sweep |-> sweep + 1, lpc |-> "remove"]
    ELSE [occ |-> occ, sweep |-> sweep + 1, lpc |-> "done"]

\* Initialization: the next occurrence gets a topic drawn uniformly from the K
LdaInitAssign ==
    /\ lpc = "init"
    /\ occ <= Len(Occurrences)
    /\ LET d == Occurrences[occ][1]
           i == Occurrences[occ][2]
       IN  \E t \in 1..topics :
               LET c == Increment(Counts, d, docs[d][i], t)
               IN  /\ z' = [z EXCEPT ![d][i] = t]
                   /\ doc_topic_count' = c.dt
                   /\ topic_word_count' = c.tw
                   /\ topic_total_count' = c.tt
    /\ occ' = occ + 1
    /\ UNCHANGED <<lpc, docs, topics, alpha, eta, sweep, weights, taken, moved>>
    /\ UNCHANGED mfvars

\* the initialization pass is over: the sweeps begin (none for an empty corpus)
LdaInitDone ==
    /\ lpc = "init"
    /\ occ > Len(Occurrences)
    /\ occ' = 1
    /\ lpc' = IF Len(Occurrences) = 0 THEN "done" ELSE "remove"
    /\ UNCHANGED <<docs, topics, alpha, eta, z, doc_topic_count, topic_word_count,
                   topic_total_count, sweep, weights, taken, moved>>
    /\ UNCHANGED mfvars

\* step 1: take the occurrence's current assignment out of the three tables
LdaRemove ==
    /\ lpc = "remove"
    /\ LET d == Occurrences[occ][1]
           i == Occurrences[occ][2]
           c == Decrement(Counts, d, docs[d][i], z[d][i])
       IN  /\ doc_topic_count' = c.dt
           /\ topic_word_count' = c.tw
           /\ topic_total_count' = c.tt
           /\ z' = [z EXCEPT ![d][i] = 0]
           /\ taken' = z[d][i]
    /\ lpc' = "sample"
    /\ UNCHANGED <<docs, topics, alpha, eta, occ, sweep, weights, moved>>
    /\ UNCHANGED mfvars

\* steps 2 to 4: the K weights, their normalization, the draw of t* with its
\* probability, and the re-insertion under t*.  A zero denominator or a zero
\* sum is a division by zero.
LdaSample ==
    /\ lpc = "sample"
    /\ LET d == Occurrences[occ][1]
           i == Occurrences[occ][2]
           w == docs[d][i]
           ws == [t \in 1..topics |-> Weight(d, w, t)]
           next == AfterOccurrence
       IN  /\ weights' = ws
           /\ IF (\E t \in 1..topics : ws[t].den = 0) \/ Total(ws, topics).num = 0
              THEN /\ lpc' = "zero_division"
                   /\ UNCHANGED <<z, doc_topic_count, topic_word_count,
                                  topic_total_count, occ, sweep, moved>>
              ELSE \E t \in {t \in 1..topics : ws[t].num > 0} :
                       LET c == Increment(Counts, d, w, t)
                       IN  /\ z' = [z EXCEPT ![d][i] = t]
                           /\ doc_topic_count' = c.dt
                           /\ topic_word_count' = c.tw
                           /\ topic_total_count' = c.tt
                           /\ moved' = (moved \/ t # taken)
                           /\ occ' = next.occ
                           /\ sweep' = next.sweep
                           /\ lpc' = next.lpc
    /\ UNCHANGED <<docs, topics, alpha, eta, taken>>
    /\ UNCHANGED mfvars

NextLDA == LdaReject \/ LdaAccept \/ LdaInitAssign \/ LdaInitDone \/ LdaRemove \/ LdaSample

SpecLDA == InitLDA /\ [][NextLDA]_vars

\* ------------------------------------------------------------- what the claims read
RECURSIVE SeqSum(_)
SeqSum(q) == IF q = <<>> THEN 0 ELSE q[1] + SeqSum(Tail(q))
\* how often token w occurs in the corpus
Frequency(w) ==
    Cardinality({n \in 1..Len(Occurrences) :
                    docs[Occurrences[n][1]][Occurrences[n][2]] = w})
\* every occurrence holds a topic: the initialization pass is over and no
\* resampling is under way
AllAssigned == lpc \in {"remove", "done"} \/ (lpc = "init" /\ occ > Len(Occurrences))

\* C5: whenever every occurrence holds a topic (after the initialization
\* pass, after every completed resampling), each document's counts sum to
\* its length, each token's counts sum to its corpus frequency, and each
\* topic's total is the sum of its word counts.
C5_CountConservation ==
    AllAssigned =>
        /\ \A d \in Docs :
              SeqSum([t \in 1..topics |-> doc_topic_count[d][t]]) = Len(docs[d])
        /\ \A w \in Vocab :
              SeqSum([t \in 1..topics |-> topic_word_count[t][w]]) = Frequency(w)
        /\ \A t \in 1..topics :
              /\ topic_total_count[t] = topic_word_count[t][1] + topic_word_count[t][2]
              /\ topic_total_count[t] =
                    Cardinality({n \in 1..Len(Occurrences) :
                                    z[Occurrences[n][1]][Occurrences[n][2]] = t})

C5_Witness ==
    /\ lpc = "done" /\ sweep = MaxSweeps /\ moved
    /\ topics = 2
    /\ Len(docs[1]) = 2 /\ docs[1][1] = docs[1][2]
    /\ doc_topic_count[1][1] = 1 /\ doc_topic_count[1][2] = 1

\* what C6 says of the weights last computed
WeightsUsable ==
    /\ \A t \in 1..topics : weights[t].num >= 0 /\ weights[t].den > 0
    /\ Total(weights, topics).num > 0
    /\ Total(weights, topics).den > 0
    /\ lpc # "zero_division"

\* C6 as stated: for eta > 0 the weights are non-negative with a positive
\* sum, whatever alpha is.
C6_WeightsPositiveForAnyAlpha ==
    (weights # <<>> /\ eta > 0) => WeightsUsable

\* C6 amended: for alpha > 0 and eta > 0 the weights, computed with the
\* occurrence's own assignment out of the tables, are non-negative with a
\* positive sum.
C6_WeightsPositive ==
    /\ (lpc = "sample" /\ alpha > 0 /\ eta > 0) =>
          LET d == Occurrences[occ][1]
              i == Occurrences[occ][2]
          IN  /\ z[d][i] = 0
              /\ SeqSum([t \in 1..topics |-> doc_topic_count[d][t]]) = Len(docs[d]) - 1
              /\ SeqSum([t \in 1..topics |-> topic_total_count[t]]) = Len(Occurrences) - 1
    /\ (weights # <<>> /\ alpha > 0 /\ eta > 0) => WeightsUsable

\* a corpus of one one-word document, resampled
C6_Witness ==
    /\ Len(docs[1]) = 1 /\ Len(docs[2]) = 0
    /\ alpha > 0 /\ eta > 0 /\ topics = 2
    /\ lpc = "done" /\ weights # <<>> /\ moved
    /\ \A t \in 1..topics : weights[t].num = alpha * eta

====
